---- MODULE Spec2Model ----
(***************************************************************************)
(* Model of the apinalytics_client Sender (sender.go): producers call      *)
(* Queue, one background goroutine (run) batches the events it pulls off   *)
(* the buffered channel and posts them (send), Close closes the channel    *)
(* and waits on the unbuffered done channel.                               *)
(***************************************************************************)
EXTENDS Integers, Sequences, FiniteSets, TLC

\* sender.go:18  channel_size int = 100
channel_size == 100
\* sender.go:20  send_threshold int = 90
send_threshold == 90

\* Events the first producer of the concurrent workloads enqueues at most.
MaxEvents == 3
\* Events the load producer enqueues beyond the capacity of the channel.
Extra == 1

\* The goroutines that call Queue.
Producers == {1, 2}

\* The goroutine that calls Close (named like a producer in the set of panics).
Closer == 0

\* A nil *AnalyticsEvent.
Nil == 0

\* The i-th event of producer p (a distinct pointer).
Event(p, i) == 10 * i + p

\* Outcomes of one send(): the four failure exits and the 200 response.
SendOutcomes == {"marshal_error", "request_error", "post_error", "status_not_ok", "ok"}

VARIABLES
    channel,   \* sender.channel: the buffered channel, oldest event first
    closed,    \* sender.channel has been closed
    events,    \* sender.events: the batch being accumulated
    count,     \* sender.count
    wpc,       \* where the goroutine run() is
    cpc,       \* where the caller of Close is
    todo,      \* per producer, the events it still has to pass to Queue
    panics,    \* goroutines that hit a runtime panic (send on / close of a closed channel)
    queued,    \* history: every event accepted by the channel, in order
    sent,      \* history: every event of every posted batch, in call order
    batches,   \* history: the batches send() posted, with their outcome (when record)
    record,    \* whether the batches and the state at Close are kept as history
    closeEarly,\* when Close may be called while producers still have events to queue:
               \* "never", "always", or "blocked" (only while the channel is full)
    atClose,   \* history: the queue and the worker at the call of Close
    paced      \* history: every Queue so far found the worker idle, waiting for an event

vars == <<channel, closed, events, count, wpc, cpc, todo, panics, queued, sent,
          batches, record, closeEarly, atClose, paced>>

----------------------------------------------------------------------------
\* Pure helpers

IsEvent(e) == e # Nil

\* The non-nil events of s, in order.
NonNil(s) == SelectSeq(s, IsEvent)

Range(s) == {s[i] : i \in 1..Len(s)}

IsPrefix(s, t) == Len(s) <= Len(t) /\ SubSeq(t, 1, Len(s)) = s

NoDuplicates(s) == Cardinality(Range(s)) = Len(s)

Increasing(s) == \A i \in 1..(Len(s) - 1) : s[i] < s[i + 1]

\* The goroutine that made event e (the events of one producer grow with the rank
\* of the Queue call).
ProducerOf(e) == e % 10

\* The events of s that producer 1 (producer 2) made, in order.
MadeBy1(e) == e # Nil /\ ProducerOf(e) = 1
MadeBy2(e) == e # Nil /\ ProducerOf(e) = 2

\* The events of the recorded batches, in call order.
RECURSIVE Concat(_)
Concat(bs) ==
    IF bs = <<>> THEN <<>> ELSE Head(bs).events \o Concat(Tail(bs))

\* The plans of at most n events: TRUE is an event, FALSE a nil pointer.
Plans(n) == UNION {[1..k -> BOOLEAN] : k \in 0..n}

PlanEvents(p, plan) ==
    [i \in 1..Len(plan) |-> IF plan[i] THEN Event(p, i) ELSE Nil]

----------------------------------------------------------------------------
\* The pieces of the code the operations are built from

\* Mutant: a channel that never blocks its senders.
ChannelNeverFull == FALSE

\* make(chan *AnalyticsEvent, channel_size): a send blocks while the buffer is full.
ChannelFull == Len(channel) >= channel_size

\* Mutant: add takes every event, nil included.
NeverNil(event) == FALSE

\* add: "if event == nil { return false }"
IsNilEvent(event) == event = Nil

\* Mutant: the event is put in front of the batch.
Prepended(evs, event) == <<event>> \o evs

\* add: "sender.events = append(sender.events, event)"
Appended(evs, event) == Append(evs, event)

\* Mutant: the flush is triggered by the capacity of the channel.
OverCapacity(c) == c > channel_size

\* Mutant: the flush is triggered on reaching the threshold.
AtThreshold(c) == c >= send_threshold

\* add: "if sender.count > send_threshold { sender.send() }"
OverThreshold(c) == c > send_threshold

\* reset: a fresh empty slice and count 0.
reset == [events |-> <<>>, count |-> 0]

\* Mutant: send() waits for a second event before it posts.
NothingToSendBelowTwo(c) == c < 2

\* Mutant: send() without its count check.
AlwaysSomethingToSend(c) == FALSE

\* send: "if sender.count == 0 { return }"
NothingToSend(c) == c = 0

\* Mutant: the batch is kept for a retry when the send failed.
ResetOnSuccess(acc, outcome) == IF outcome = "ok" THEN reset ELSE acc

\* send: "defer sender.reset()" runs on every exit after the count check,
\* whatever the outcome of the marshalling and of the POST.
ResetOnExit(acc, outcome) == reset

\* Mutant: the loop stops as soon as the channel is closed, events still queued.
RangeDoneOnClose == closed

\* run: "for event = range sender.channel" ends once the channel is closed and drained.
RangeDone == closed /\ channel = <<>>

\* What the transport keeps of one send() that got past the count check.
Posted(outcome) ==
    IF record THEN Append(batches, [events |-> events, ok |-> (outcome = "ok")])
    ELSE batches

\* Every producer has made all its Queue calls.
AllQueued == \A p \in Producers : todo[p] = <<>>

\* run() is blocked in the receive that starts a cycle: nothing is queued.
WorkerIdle == wpc = "range" /\ channel = <<>>

\* When the caller of Close of the workload calls it.
CloseAllowed ==
    \/ AllQueued
    \/ closeEarly = "always"
    \/ closeEarly = "blocked" /\ ChannelFull

NotClosedYet == [queue |-> <<>>, wpc |-> "none", nbatches |-> 0, count |-> 0]

----------------------------------------------------------------------------
\* Initial states: the Sender as NewSender leaves it (empty open channel, reset
\* accumulator, run() started and about to block on the channel), with the work the
\* producers are going to do.

InitSender ==
    /\ channel = <<>>
    /\ closed = FALSE
    /\ events = reset.events
    /\ count = reset.count
    /\ wpc = "range"
    /\ cpc = "idle"
    /\ panics = {}
    /\ queued = <<>>
    /\ sent = <<>>
    /\ batches = <<>>
    /\ atClose = NotClosedYet
    /\ paced = TRUE

\* Concurrent producers, the first with up to MaxEvents events and the second with
\* at most one, some of them nil; Close at any time.
InitConcurrent ==
    /\ InitSender
    /\ record = TRUE
    /\ closeEarly = "always"
    /\ \E plan1 \in Plans(MaxEvents), plan2 \in Plans(1) :
          todo = [p \in Producers |->
                     PlanEvents(p, IF p = 1 THEN plan1 ELSE plan2)]

\* One producer that enqueues more events than the channel holds; Close is called
\* once it has finished, or while it is blocked on the full channel; no history of
\* the batches is kept.
InitLoad ==
    /\ InitSender
    /\ record = FALSE
    /\ closeEarly = "blocked"
    /\ todo = [p \in Producers |->
                 IF p = 1 THEN PlanEvents(p, [i \in 1..(channel_size + Extra) |-> TRUE])
                 ELSE <<>>]

Init == InitConcurrent \/ InitLoad

\* The burst scenario: one producer with send_threshold + 5 events.
BurstEvents == send_threshold + 5

InitBurst ==
    /\ InitSender
    /\ record = TRUE
    /\ closeEarly = "never"
    /\ todo = [p \in Producers |->
                 IF p = 1 THEN PlanEvents(p, [i \in 1..BurstEvents |-> TRUE])
                 ELSE <<>>]

----------------------------------------------------------------------------
\* Producers

\* Queue: "sender.channel <- event" on an open channel with room.
Queue(p) ==
    /\ todo[p] # <<>>
    /\ ~closed
    /\ ~ChannelFull
    /\ channel' = Append(channel, Head(todo[p]))
    /\ queued' = Append(queued, Head(todo[p]))
    /\ todo' = [todo EXCEPT ![p] = Tail(@)]
    /\ paced' = (paced /\ WorkerIdle)
    /\ UNCHANGED <<closed, events, count, wpc, cpc, panics, sent, batches, record,
                   closeEarly, atClose>>

\* Mutant: Queue on a closed channel still puts the event in the buffer.
QueueClosedAccepts(p) ==
    /\ todo[p] # <<>>
    /\ closed
    /\ panics' = panics \cup {p}
    /\ channel' = Append(channel, Head(todo[p]))
    /\ todo' = [todo EXCEPT ![p] = <<>>]
    /\ UNCHANGED <<closed, events, count, wpc, cpc, queued, sent, batches,
                   record, closeEarly, atClose, paced>>

\* Queue on a closed channel (also a Queue that was blocked when Close ran):
\* the Go runtime panics with "send on closed channel"; nothing is enqueued.
QueueClosed(p) ==
    /\ todo[p] # <<>>
    /\ closed
    /\ panics' = panics \cup {p}
    /\ todo' = [todo EXCEPT ![p] = <<>>]
    /\ UNCHANGED <<channel, closed, events, count, wpc, cpc, queued, sent, batches,
                   record, closeEarly, atClose, paced>>

----------------------------------------------------------------------------
\* Close

\* Close, first statement: "close(sender.channel)".
Close ==
    /\ cpc = "idle"
    /\ ~closed
    /\ CloseAllowed
    /\ closed' = TRUE
    /\ cpc' = "closed"
    /\ atClose' = IF record
                  THEN [queue |-> channel, wpc |-> wpc, nbatches |-> Len(batches),
                        count |-> count]
                  ELSE atClose
    /\ UNCHANGED <<channel, events, count, wpc, todo, panics, queued, sent, batches, record, closeEarly, paced>>

\* Close, second statement: "<-sender.done", the caller starts to wait for run().
CloseWait ==
    /\ cpc = "closed"
    /\ cpc' = "waiting"
    /\ UNCHANGED <<channel, closed, events, count, wpc, todo, panics, queued, sent, batches,
                   record, closeEarly, atClose, paced>>

\* A second Close: close of a closed channel panics before the wait on done.
CloseAgain ==
    /\ closed
    /\ Closer \notin panics
    /\ panics' = panics \cup {Closer}
    /\ UNCHANGED <<channel, closed, events, count, wpc, cpc, todo, queued, sent, batches,
                   record, closeEarly, atClose, paced>>

----------------------------------------------------------------------------
\* The background goroutine run()

\* add(event), up to the call of send(): what it leaves in the accumulator and where
\* run() goes on (onFalse after "return false", onTrue after "return true").
Add(event, onFalse, onTrue) ==
    IF IsNilEvent(event)
    THEN /\ UNCHANGED <<events, count>>
         /\ wpc' = onFalse
    ELSE /\ events' = Appended(events, event)
         /\ count' = count + 1
         /\ wpc' = IF OverThreshold(count + 1) THEN "add_send" ELSE onTrue

\* Mutant: run() without its drain loop, every cycle sends after its first event.
RangeRecvNoDrain ==
    /\ wpc = "range"
    /\ channel # <<>>
    /\ channel' = Tail(channel)
    /\ Add(Head(channel), "send", "send")
    /\ UNCHANGED <<closed, cpc, todo, panics, queued, sent, batches, record, closeEarly,
                   atClose, paced>>

\* "for event = range sender.channel { sender.add(event)": the blocking receive and
\* the add of the first event of a cycle; the result of add is ignored.
RangeRecv ==
    /\ wpc = "range"
    /\ channel # <<>>
    /\ channel' = Tail(channel)
    /\ Add(Head(channel), "select", "select")
    /\ UNCHANGED <<closed, cpc, todo, panics, queued, sent, batches, record, closeEarly, atClose, paced>>

\* The range loop ends: the channel is closed and empty.
RangeExit ==
    /\ wpc = "range"
    /\ RangeDone
    /\ wpc' = "signal"
    /\ UNCHANGED <<channel, closed, events, count, cpc, todo, panics, queued, sent,
                   batches, record, closeEarly, atClose, paced>>

\* Mutant: the drain goes on after a nil event.
DrainRecvSkipsNil ==
    /\ wpc = "select"
    /\ channel # <<>>
    /\ channel' = Tail(channel)
    /\ Add(Head(channel), "select", "select")
    /\ UNCHANGED <<closed, cpc, todo, panics, queued, sent, batches, record, closeEarly,
                   atClose, paced>>

\* "case event = <-sender.channel" with an event ready: "if !sender.add(event) { break Loop }".
DrainRecv ==
    /\ wpc = "select"
    /\ channel # <<>>
    /\ channel' = Tail(channel)
    /\ Add(Head(channel), "send", "select")
    /\ UNCHANGED <<closed, cpc, todo, panics, queued, sent, batches, record, closeEarly, atClose, paced>>

\* Mutant: the receive on a closed, drained channel is taken for an empty poll that
\* is tried again.
DrainClosedKeepsDraining ==
    /\ wpc = "select"
    /\ channel = <<>>
    /\ closed
    /\ wpc' = "select"
    /\ UNCHANGED <<channel, closed, events, count, cpc, todo, panics, queued, sent,
                   batches, record, closeEarly, atClose, paced>>

\* "case event = <-sender.channel" on a closed, drained channel: the receive yields
\* the zero value nil at once, add(nil) returns false, break Loop.
DrainClosed ==
    /\ wpc = "select"
    /\ channel = <<>>
    /\ closed
    /\ wpc' = "send"
    /\ UNCHANGED <<channel, closed, events, count, cpc, todo, panics, queued, sent,
                   batches, record, closeEarly, atClose, paced>>

\* Mutant: an empty poll starts the next cycle without the send() that ends this one.
DrainDefaultToRange ==
    /\ wpc = "select"
    /\ channel = <<>>
    /\ ~closed
    /\ wpc' = "range"
    /\ UNCHANGED <<channel, closed, events, count, cpc, todo, panics, queued, sent,
                   batches, record, closeEarly, atClose, paced>>

\* "default: break Loop": nothing is ready on the open channel.
DrainDefault ==
    /\ wpc = "select"
    /\ channel = <<>>
    /\ ~closed
    /\ wpc' = "send"
    /\ UNCHANGED <<channel, closed, events, count, cpc, todo, panics, queued, sent,
                   batches, record, closeEarly, atClose, paced>>

\* Mutant: a failed POST is repeated once with the same batch.
TransmitWithRetry(outcome) ==
    /\ sent' = IF outcome = "ok" THEN sent \o events ELSE sent \o events \o events
    /\ batches' = IF outcome = "ok" \/ ~record THEN Posted(outcome)
                  ELSE Append(Posted(outcome), [events |-> events, ok |-> TRUE])
    /\ events' = reset.events
    /\ count' = reset.count

\* send() past the count check: marshal, POST, log; the deferred reset runs on every exit.
Transmit(outcome) ==
    /\ sent' = sent \o events
    /\ batches' = Posted(outcome)
    /\ events' = ResetOnExit([events |-> events, count |-> count], outcome).events
    /\ count' = ResetOnExit([events |-> events, count |-> count], outcome).count

\* send() as a whole.
send ==
    IF NothingToSend(count)
    THEN UNCHANGED <<events, count, sent, batches>>
    ELSE \E outcome \in SendOutcomes : Transmit(outcome)

\* The send() called by add when the count is over the threshold; add then returns
\* true and the drain goes on.
AddSend ==
    /\ wpc = "add_send"
    /\ send
    /\ wpc' = "select"
    /\ UNCHANGED <<channel, closed, cpc, todo, panics, queued, record, closeEarly, atClose, paced>>

\* Mutant: the batch of a cycle is only posted once the channel is closed.
SendWhenClosed ==
    /\ wpc = "send"
    /\ IF closed THEN send ELSE UNCHANGED <<events, count, sent, batches>>
    /\ wpc' = "range"
    /\ UNCHANGED <<channel, closed, cpc, todo, panics, queued, record, closeEarly, atClose,
                   paced>>

\* "sender.send()" at the end of a cycle, then back to the blocking receive.
Send ==
    /\ wpc = "send"
    /\ send
    /\ wpc' = "range"
    /\ UNCHANGED <<channel, closed, cpc, todo, panics, queued, record, closeEarly, atClose, paced>>

\* Mutant: done has room for one value, so run() does not wait for the receiver.
SignalDoneBuffered ==
    /\ wpc = "signal"
    /\ wpc' = "exited"
    /\ cpc' = IF cpc = "waiting" THEN "returned" ELSE cpc
    /\ UNCHANGED <<channel, closed, events, count, todo, panics, queued, sent, batches,
                   record, closeEarly, atClose, paced>>

\* Mutant: run() goes back to the range loop after it has signalled done.
SignalDoneAndLoop ==
    /\ wpc = "signal"
    /\ cpc = "waiting"
    /\ wpc' = "range"
    /\ cpc' = "returned"
    /\ UNCHANGED <<channel, closed, events, count, todo, panics, queued, sent, batches,
                   record, closeEarly, atClose, paced>>

\* "sender.done <- true" meets "<-sender.done" of Close: done is unbuffered, so the
\* worker's send and the closer's receive complete together.
SignalDone ==
    /\ wpc = "signal"
    /\ cpc = "waiting"
    /\ wpc' = "exited"
    /\ cpc' = "returned"
    /\ UNCHANGED <<channel, closed, events, count, todo, panics, queued, sent, batches,
                   record, closeEarly, atClose, paced>>

Worker ==
    \/ RangeRecv
    \/ RangeExit
    \/ DrainRecv
    \/ DrainClosed
    \/ DrainDefault
    \/ AddSend
    \/ Send
    \/ SignalDone

Next ==
    \/ \E p \in Producers : Queue(p)
    \/ \E p \in Producers : QueueClosed(p)
    \/ Close
    \/ CloseWait
    \/ CloseAgain
    \/ Worker

Spec == Init /\ [][Next]_vars

\* A burst: the producer queues with no delay, so the worker's non-blocking receive
\* never finds the channel empty while the producer still has events to queue; Close
\* is called once, after the burst.
NextBurst ==
    \/ \E p \in Producers : Queue(p)
    \/ Close
    \/ CloseWait
    \/ RangeRecv
    \/ RangeExit
    \/ DrainRecv
    \/ DrainClosed
    \/ AllQueued /\ DrainDefault
    \/ AddSend
    \/ Send
    \/ SignalDone

SpecBurst == InitBurst /\ [][NextBurst]_vars

\* The Go scheduler runs a goroutine that is ready: run() takes its next step
\* whenever it is not blocked on the channel or on done, and the caller of Close
\* goes from close() to the receive on done.
FairSpec == Spec /\ WF_vars(Worker) /\ WF_vars(CloseWait)

----------------------------------------------------------------------------
\* Claims

\* C1 (completeness on shutdown): once Close has returned, the queue and the
\* accumulator are empty and every non-nil event the channel accepted has been
\* part of the batch of some send call, failed sends included.
C1_CompleteOnClose ==
    cpc = "returned" =>
        /\ channel = <<>>
        /\ events = <<>>
        /\ count = 0
        /\ Range(NonNil(queued)) \subseteq Range(sent)
        /\ (record => Range(NonNil(queued)) \subseteq Range(Concat(batches)))

\* Close has returned after several events went out in several batches, one of
\* them in a failed send.
C1_Witness ==
    /\ cpc = "returned"
    /\ panics = {}
    /\ Len(NonNil(queued)) >= 3
    /\ Nil \in Range(queued)
    /\ Len(batches) >= 2
    /\ \E i \in 1..Len(batches) : ~batches[i].ok

\* C2 (order preservation): the events of the batches, concatenated in call order,
\* are at every moment the first of the non-nil events in the order the channel
\* accepted them, which for each producer is the order of its Queue calls; and they
\* are all of them once Close has returned.
C2_OrderPreserved ==
    /\ IsPrefix(sent, NonNil(queued))
    /\ record => Concat(batches) = sent
    /\ Increasing(SelectSeq(queued, MadeBy1))
    /\ Increasing(SelectSeq(queued, MadeBy2))
    /\ cpc = "returned" => sent = NonNil(queued)

\* A single producer's three events went out in two batches or more, in its order.
C2_Witness ==
    /\ cpc = "returned"
    /\ Len(batches) >= 2
    /\ Concat(batches) = <<Event(1, 1), Event(1, 2), Event(1, 3)>>
    /\ \A p \in Producers \ {1} : todo[p] = <<>>

\* C3 (no duplication, no fabrication): every event of a batch was enqueued, no
\* event is in two batches or twice in one, what was sent, what is accumulated and
\* what is queued are pairwise disjoint (nothing sent stays behind for a retry), and
\* once Close has returned every enqueued event is in exactly one batch.
C3_NoDupNoFabrication ==
    /\ NoDuplicates(sent \o events \o NonNil(channel))
    /\ Range(sent) \subseteq Range(NonNil(queued))
    /\ record => NoDuplicates(Concat(batches))
    /\ record => Range(Concat(batches)) \subseteq Range(NonNil(queued))
    /\ cpc = "returned" => Range(sent) = Range(NonNil(queued))

\* Two producers' events went out, the first batch in a failed send, and more
\* events were sent after it.
C3_Witness ==
    /\ Len(batches) >= 2
    /\ ~batches[1].ok
    /\ {ProducerOf(e) : e \in Range(sent)} = Producers
    /\ cpc = "returned"

\* C4 (backpressure): the channel never holds more than channel_size events, and a
\* producer with an event to queue on the open channel can complete its Queue call
\* exactly when fewer than channel_size events are queued.
C4_Backpressure ==
    /\ Len(channel) <= channel_size
    /\ \A p \in Producers :
          (todo[p] # <<>> /\ ~closed) =>
              ((ENABLED Queue(p)) <=> Len(channel) < channel_size)

\* The channel is full and the producer has a further event to queue: it is blocked.
C4_Witness ==
    /\ Len(channel) = channel_size
    /\ ~closed
    /\ todo[1] # <<>>

\* A step in which send() posted a batch and failed.
FailedSendStep ==
    /\ record
    /\ Len(batches') = Len(batches) + 1
    /\ ~batches'[Len(batches')].ok

\* Some recorded send has failed.
SomeSendFailed == \E i \in 1..Len(batches) : ~batches[i].ok

\* Nothing is pending: every non-nil event the channel accepted is in a batch.
AllSent == channel = <<>> /\ events = <<>> /\ Range(NonNil(queued)) \subseteq Range(sent)

\* C5 (failure isolation): a failed send leaves the accumulator reset and the queue
\* untouched, the worker goes on where it goes on after a successful send (the drain
\* after a threshold flush, the blocking receive after the flush of a cycle) with the
\* batch counted as sent, not kept; and after a failed send the worker still comes
\* to send whatever is or gets queued: again and again nothing is pending.
C5_FailureIsolated ==
    /\ [][FailedSendStep =>
            /\ events' = <<>>
            /\ count' = 0
            /\ sent' = sent \o events
            /\ wpc' = (IF wpc = "add_send" THEN "select" ELSE "range")
            /\ UNCHANGED <<channel, closed, cpc, todo, panics, queued>>]_vars
    /\ SomeSendFailed ~> AllSent

\* A send failed and an event queued after it went out in a later batch.
C5_Witness ==
    /\ Len(batches) >= 2
    /\ ~batches[1].ok
    /\ batches[1].events = <<Event(1, 1)>>
    /\ Event(2, 1) \in Range(batches[2].events)
    /\ wpc = "range"

\* C6 (batches up to send_threshold): a batch that send() is about to transmit holds
\* at most send_threshold events.
C6_BatchUpToThreshold ==
    wpc \in {"send", "add_send"} => Len(events) <= send_threshold

C8_EmptyBatchSuppressed ==
    [][/\ Len(batches') > Len(batches) => batches'[Len(batches')].events # <<>>
       /\ (wpc \in {"send", "add_send"} /\ wpc' # wpc /\ count = 0) =>
              UNCHANGED <<events, count, channel, sent, batches>>]_vars

\* A cycle that pulled only a nil event has gone through send() and is back at the
\* blocking receive with nothing sent.
C8_Witness ==
    /\ queued = <<Nil>>
    /\ channel = <<>>
    /\ wpc = "range"
    /\ sent = <<>>
    /\ batches = <<>>
    /\ todo[1] # <<>>

\* C9 (Close with a backlog): when Close was called with exactly 3 events queued and
\* the worker blocked in the receive that starts a cycle, at most one send happens
\* after the call, and when Close returns exactly one has, with those 3 events in
\* their order.
C9_CloseWithBacklog ==
    (/\ atClose.wpc = "range"
     /\ Len(atClose.queue) = 3
     /\ Nil \notin Range(atClose.queue))
    =>
    /\ Len(batches) <= atClose.nbatches + 1
    /\ Len(batches) = atClose.nbatches + 1 =>
          batches[Len(batches)].events = atClose.queue
    /\ cpc = "returned" => Len(batches) = atClose.nbatches + 1

\* Close has returned after it was called on a backlog of 3 events.
C9_Witness ==
    /\ atClose.wpc = "range"
    /\ Len(atClose.queue) = 3
    /\ Nil \notin Range(atClose.queue)
    /\ atClose.count = 0
    /\ cpc = "returned"
    /\ batches[Len(batches)].events = atClose.queue

\* The events of the burst, in the order they are queued.
Burst == PlanEvents(1, [i \in 1..BurstEvents |-> TRUE])

\* The burst has been handled: all of it was queued and the worker is back at the
\* blocking receive, or past it, with nothing left.
BurstHandled ==
    /\ AllQueued
    /\ channel = <<>>
    /\ wpc \in {"range", "signal", "exited"}

WorkerDone == channel = <<>> /\ wpc \in {"range", "signal", "exited"}

\* C11 (no batching under light load): as long as every event was queued while the
\* worker was blocked waiting for the first event of a cycle, every batch holds
\* exactly one event, and once the worker has handled what was queued there are as
\* many batches as non-nil events queued, one per event in their order.
C11_NoBatchingWhenPaced ==
    (paced /\ record) =>
        /\ \A i \in 1..Len(batches) : Len(batches[i].events) = 1
        /\ WorkerDone =>
              /\ Len(batches) = Len(NonNil(queued))
              /\ Concat(batches) = NonNil(queued)

\* Three events were queued one by one, each while the worker was waiting, and
\* went out in three sends.
C11_Witness ==
    /\ paced
    /\ WorkerIdle
    /\ Len(NonNil(queued)) = 3
    /\ Len(batches) = 3
    /\ \A i \in 1..3 : Len(batches[i].events) = 1

\* An event is queued or accumulated and not sent yet.
SomePending == channel # <<>> \/ events # <<>>

\* C12 (eventual send without shutdown): when run() is scheduled fairly, whatever is
\* queued or accumulated is eventually sent, in every behaviour, those in which no
\* further event is queued and Close is never called included.
C12_EventuallySent == SomePending ~> AllSent

\* Everything the producers queued has been sent and Close was never called.
C12_Witness ==
    /\ ~closed
    /\ cpc = "idle"
    /\ AllQueued
    /\ AllSent
    /\ Len(sent) >= 3
    /\ WorkerIdle

\* A step in which a goroutine panics: a Queue on the closed channel or a second Close.
MisuseStep == panics' # panics

\* C13 (misuse never corrupts state): a Queue on the closed channel (also one that
\* was blocked on the full channel when Close ran) and a second Close end in a
\* panic of the caller and change neither the queue nor the accumulator nor what was
\* sent nor where the worker and the first caller of Close are; nothing is accepted
\* once the channel is closed; and with a misuse behind it the sender still holds
\* every accepted event exactly once, sent, accumulated or queued.
C13_MisuseKeepsState ==
    /\ [][MisuseStep =>
            /\ panics \subseteq panics'
            /\ UNCHANGED <<channel, closed, events, count, wpc, cpc, queued, sent,
                           batches>>]_vars
    /\ [][closed =>
            /\ queued' = queued
            /\ (todo' # todo => MisuseStep)]_vars
    /\ [](panics # {} =>
            /\ sent \o events \o NonNil(channel) = NonNil(queued)
            /\ NoDuplicates(NonNil(queued)))

\* The producer was blocked on the full channel when Close ran and has panicked, a
\* second Close has panicked too, and the channel still holds its 100 events.
C13_Witness ==
    /\ Len(channel) = channel_size
    /\ panics = {1, Closer}
    /\ Len(queued) = channel_size
    /\ closed

\* A step in which run() pulls a nil event off the channel.
NilPulled == channel # <<>> /\ Head(channel) = Nil /\ channel' = Tail(channel)

\* C14 as claimed (malformed event): a nil event pulled during the non-blocking
\* drain is not added to the batch and the worker keeps draining.
C14_NilKeepsDraining ==
    [][(wpc = "select" /\ NilPulled) =>
          (events' = events /\ count' = count /\ wpc' = "select")]_vars

\* C14 as amended: a nil event is never added to the batch; pulled by the blocking
\* receive that starts a cycle it is skipped and the drain follows; pulled during the
\* non-blocking drain it ends the drain, the worker goes on to flush what it has
\* accumulated and leaves the events queued behind the nil to the next cycle.
C14_NilEndsDrain ==
    /\ [](Nil \notin Range(events))
    /\ [][NilPulled =>
            /\ events' = events
            /\ count' = count
            /\ sent' = sent
            /\ wpc' = (IF wpc = "range" THEN "select" ELSE "send")]_vars

\* A nil event was pulled in the drain after a first event: the worker is about to
\* flush that event alone while a third event is queued behind the nil.
C14_Witness ==
    /\ queued = <<Event(1, 1), Nil, Event(1, 3)>>
    /\ events = <<Event(1, 1)>>
    /\ channel = <<Event(1, 3)>>
    /\ wpc = "send"
    /\ sent = <<>>

\* run() is past its range loop: at the send on done, or returned.
Stopping == wpc \in {"signal", "exited"}

\* C15 (single stop after final flush): run() leaves its loop only once the channel
\* is closed and drained and the last batch is flushed; the one step that completes
\* "sender.done <- true" is the step in which Close returns, it happens at most once,
\* and after it run() receives, appends and sends nothing.
C15_SingleStop ==
    /\ [](Stopping => /\ closed
                      /\ channel = <<>>
                      /\ events = <<>>
                      /\ count = 0
                      /\ sent = NonNil(queued))
    /\ [](wpc = "exited" <=> cpc = "returned")
    /\ [][wpc' # wpc /\ wpc' = "exited" => wpc = "signal" /\ cpc = "waiting"]_vars
    /\ [][Stopping => /\ Stopping'
                      /\ UNCHANGED <<channel, events, count, sent, batches>>]_vars
    /\ [][wpc = "exited" => wpc' = "exited" /\ cpc' = "returned"]_vars

\* run() has returned after flushing three events queued before Close.
C15_Witness ==
    /\ wpc = "exited"
    /\ cpc = "returned"
    /\ Len(sent) = 3
    /\ sent = NonNil(queued)

\* The caller of Close is inside Close, after close(sender.channel).
InClose == cpc \in {"closed", "waiting"}

\* C16 (Close terminates): with run() scheduled whenever it can step and every
\* send() returning, a Close called after the producers have queued everything
\* returns, whatever the channel holds and wherever run() is at the call; while the
\* caller is inside Close, run() or the caller can always take a step.
C16_CloseTerminates ==
    /\ (InClose /\ AllQueued) ~> (cpc = "returned")
    /\ [](InClose => ENABLED (Worker \/ CloseWait))

\* Close has returned; it was called after every Queue, while run() was in the
\* middle of a cycle and the channel held two or more entries, one of them nil.
C16_Witness ==
    /\ cpc = "returned"
    /\ AllQueued
    /\ panics = {}
    /\ record
    /\ atClose.wpc \in {"select", "send"}
    /\ Len(atClose.queue) >= 2
    /\ Nil \in Range(atClose.queue)

\* C17 as claimed (worker suspension points): run() waits only in the blocking
\* receive that starts a cycle; in every other step, the send on done included, it
\* can take its next step without waiting for a producer or for the caller of Close.
C17_SuspendsOnlyAtFirst == wpc \notin {"range", "exited"} => ENABLED Worker

\* C17 as amended: run() waits in the blocking receive that starts a cycle, until an
\* event is queued or the channel is closed, and in "sender.done <- true", until the
\* caller of Close is at "<-sender.done" (done is unbuffered); in the drain, in add
\* and in send it can always take its next step.
C17_SuspensionPoints ==
    /\ wpc \in {"select", "add_send", "send"} => ENABLED Worker
    /\ wpc = "range" => (ENABLED Worker <=> (channel # <<>> \/ closed))
    /\ wpc = "signal" => (ENABLED Worker <=> cpc = "waiting")

\* run() has flushed everything and is at the send on done, while the caller of Close
\* has closed the channel and not yet reached the receive on done.
C17_Witness ==
    /\ wpc = "signal"
    /\ cpc = "closed"
    /\ sent # <<>>
    /\ ~ ENABLED Worker

\* The number of events a step hands to send()'s POST.
Flushed == Len(sent') - Len(sent)

C19_EmptyAtCycleStart ==
    /\ [](wpc \in {"range", "signal", "exited"} => (events = <<>> /\ count = 0))
    /\ [][wpc = "range" => wpc' # "add_send"]_vars
    /\ [][(wpc' = "add_send" /\ wpc # "add_send") => wpc = "select"]_vars

\* run() is back at the blocking receive after a flush, with the next cycle's first
\* event already queued.
C19_Witness ==
    /\ wpc = "range"
    /\ channel # <<>>
    /\ sent # <<>>
    /\ events = <<>>
    /\ count = 0

\* C20 (accumulator consistency): count is the length of events, events holds no
\* nil, and only the steps of run() that call add or send (with its reset) change
\* either one; Queue and Close leave both alone.
C20_AccumulatorConsistent ==
    /\ [](count = Len(events) /\ Nil \notin Range(events))
    /\ [][<<events, count>>' # <<events, count>> =>
            /\ wpc \in {"range", "select", "add_send", "send"}
            /\ UNCHANGED <<queued, closed, cpc, panics, todo>>
            /\ \/ channel # <<>> /\ channel' = Tail(channel) /\ sent' = sent
               \/ channel' = channel /\ events' = <<>> /\ count' = 0]_vars

\* A nil event was queued and pulled, and the accumulator holds the two events
\* queued with it.
C20_Witness ==
    /\ count = 2
    /\ Len(events) = 2
    /\ Nil \in Range(queued)
    /\ Nil \notin Range(channel)
    /\ Len(queued) = 3

====
